---------------------------- MODULE Spec2Model ----------------------------
(***************************************************************************)
(* Model of the FixedOPS_AI estimation pipeline (src/app.py) and of its    *)
(* services (src/services/*.py).                                           *)
(*                                                                         *)
(* Units.  Python floats are modelled by exact integers:                   *)
(*   money      : mills, 1/1000 of a dollar   (50.00 -> 50000)             *)
(*   hours      : tenths of an hour           (2.5   -> 25)                *)
(*   percentages: basis points, 1/10000       (0.05  -> 500)               *)
(*   confidence : tenths                      (0.8   -> 8)                 *)
(* Text that the code searches or slices (notes, part descriptions, part   *)
(* numbers, VINs) is a sequence of one-character strings; text that the    *)
(* code only carries or compares as a whole is a TLA+ string.              *)
(***************************************************************************)
EXTENDS Integers, Sequences, FiniteSets, TLC

VARIABLES
    session_state,  \* st.session_state: services, decoded VIN, stored result
    pc,             \* position of run_full_pipeline
    run_clicked,    \* the run is the one the page's run button started
    input,          \* arguments of the current run_full_pipeline call
    video,          \* result of video_decoder_agent
    labor,          \* result of labor_agent
    parts,          \* result of parts_agent
    estimate,       \* result of estimate_generator
    validation,     \* result of validation_agent
    result,         \* value returned by run_full_pipeline
    raised,         \* exception that left run_full_pipeline, if any
    args,           \* arguments of a direct call of one service function
    ret,            \* value returned by that direct call
    matches,        \* the list a catalog lookup returned: its elements, by reference
    objects         \* the dicts a catalog lookup created for that list

vars == << session_state, pc, run_clicked, input, video, labor, parts,
           estimate, validation, result, raised, args, ret, matches, objects >>

pipeline_vars == << pc, run_clicked, input, video, labor, parts, estimate,
                    validation, result, raised >>

lookup_vars == << matches, objects >>

\* Python's None.
NoneVal == [type |-> "NoneType"]

-----------------------------------------------------------------------------
(* Text helpers: str.lower, str.upper, str.strip, `in`, concatenation.     *)

\* The letters of the characters U+0000..U+00FE, the characters of the
\* model's texts, that str.lower and str.upper map to one another.
UpperLetters ==
    << "A","B","C","D","E","F","G","H","I","J","K","L","M",
       "N","O","P","Q","R","S","T","U","V","W","X","Y","Z",
       "À","Á","Â","Ã","Ä","Å","Æ","Ç","È","É","Ê","Ë","Ì",
       "Í","Î","Ï","Ð","Ñ","Ò","Ó","Ô","Õ","Ö","Ø","Ù","Ú",
       "Û","Ü","Ý","Þ" >>

LowerLetters ==
    << "a","b","c","d","e","f","g","h","i","j","k","l","m",
       "n","o","p","q","r","s","t","u","v","w","x","y","z",
       "à","á","â","ã","ä","å","æ","ç","è","é","ê","ë","ì",
       "í","î","ï","ð","ñ","ò","ó","ô","õ","ö","ø","ù","ú",
       "û","ü","ý","þ" >>

LowerMap ==
    [c \in {UpperLetters[i] : i \in 1..Len(UpperLetters)} |->
        LowerLetters[CHOOSE i \in 1..Len(UpperLetters) : UpperLetters[i] = c]]

UpperMap ==
    [c \in {LowerLetters[i] : i \in 1..Len(LowerLetters)} |->
        UpperLetters[CHOOSE i \in 1..Len(LowerLetters) : LowerLetters[i] = c]]

\* c.lower() of one character
LowerChar(c) == IF c \in DOMAIN LowerMap THEN LowerMap[c] ELSE c

\* c.upper() of one character, as a text: "ß" becomes "SS"
UpperChar(c) ==
    IF c \in DOMAIN UpperMap THEN << UpperMap[c] >>
    ELSE IF c = "ß" THEN << "S", "S" >>
    ELSE IF c = "µ" THEN << "Μ" >>
    ELSE << c >>

RECURSIVE Flatten(_)
Flatten(ss) == IF ss = << >> THEN << >> ELSE Head(ss) \o Flatten(Tail(ss))

\* str.lower()
Lower(s) == [i \in 1..Len(s) |-> LowerChar(s[i])]

\* str.upper()
Upper(s) == Flatten([i \in 1..Len(s) |-> UpperChar(s[i])])

\* The characters for which str.isspace() holds.
Whitespace ==
    {"\t", "\n", "", "\f", "\r", "", "", "", "", " ", "", " "}

\* str.strip(): drop leading and trailing whitespace
Strip(s) ==
    LET keep == {i \in 1..Len(s) : s[i] \notin Whitespace}
    IN  IF keep = {} THEN << >>
        ELSE LET lo == CHOOSE i \in keep : \A j \in keep : i <= j
                 hi == CHOOSE i \in keep : \A j \in keep : j <= i
             IN  SubSeq(s, lo, hi)

\* Python's `kw in text` on strings
Contains(text, kw) ==
    \E i \in 0..(Len(text) - Len(kw)) : SubSeq(text, i + 1, i + Len(kw)) = kw

\* any(x in text for x in kws)
AnyIn(text, kws) == \E k \in 1..Len(kws) : Contains(text, kws[k])

\* The str of a text kept as a sequence of characters, for f-strings.
RECURSIVE Str(_)
Str(s) == IF s = << >> THEN "" ELSE Head(s) \o Str(Tail(s))

-----------------------------------------------------------------------------
(* Python floats: IEEE-754 binary64 with round-to-nearest, ties-to-even.   *)
(* A natural number of any size is a sequence of limbs in base 2^15, least *)
(* significant first, without leading zero limbs (0 is << >>).  A float    *)
(* x >= 0 is [m, e] with value m * 2^e, where m has exactly 53 bits, or    *)
(* m = 0.  The amounts of the program lie far from the subnormal and the   *)
(* overflow range; no operation of the program yields a negative float.    *)

\* F at the value of v, G at the values of v and w: the arguments are
\* evaluated once, as Python evaluates the operands of an expression,
\* however often the body uses them.
Eval(v, F(_)) == CHOOSE r \in { F(x) : x \in {v} } : TRUE

Eval2(v, w, G(_, _)) == CHOOSE r \in { G(x, y) : x \in {v}, y \in {w} } : TRUE

LIMB == 32768

LIMB_BITS == 15

MANTISSA_BITS == 53

RECURSIVE ToBig(_)
ToBig(n) == IF n = 0 THEN << >> ELSE << n % LIMB >> \o ToBig(n \div LIMB)

RECURSIVE ToInt(_)
ToInt(a0) ==
    Eval(a0, LAMBDA a : IF a = << >> THEN 0 ELSE Head(a) + LIMB * ToInt(Tail(a)))

RECURSIVE Trim(_)
Trim(a0) ==
    Eval(a0, LAMBDA a :
        IF a # << >> /\ a[Len(a)] = 0 THEN Trim(SubSeq(a, 1, Len(a) - 1)) ELSE a)

\* a + b + c for a carry c
RECURSIVE BigAddFrom(_, _, _, _)
BigAddFrom(a, b, i, c) ==
    IF i > Len(a) /\ i > Len(b)
    THEN ToBig(c)
    ELSE Eval((IF i > Len(a) THEN 0 ELSE a[i]) + (IF i > Len(b) THEN 0 ELSE b[i]) + c,
              LAMBDA x : << x % LIMB >> \o BigAddFrom(a, b, i + 1, x \div LIMB))

BigAdd(a0, b0, c) == Eval2(a0, b0, LAMBDA a, b : BigAddFrom(a, b, 1, c))

\* a * k + c for 0 <= k < LIMB and a carry c
RECURSIVE MulSmallFrom(_, _, _, _)
MulSmallFrom(a, k, i, c) ==
    IF i > Len(a)
    THEN ToBig(c)
    ELSE Eval(a[i] * k + c,
              LAMBDA x : << x % LIMB >> \o MulSmallFrom(a, k, i + 1, x \div LIMB))

MulSmall(a0, k, c) == Eval(a0, LAMBDA a : MulSmallFrom(a, k, 1, c))

\* a * (limbs i.. of b)
RECURSIVE BigMulFrom(_, _, _)
BigMulFrom(a, b, i) ==
    IF i > Len(b) THEN << >>
    ELSE BigAdd(MulSmall(a, b[i], 0), << 0 >> \o BigMulFrom(a, b, i + 1), 0)

BigMul(a0, b0) == Eval2(a0, b0, LAMBDA a, b : Trim(BigMulFrom(a, b, 1)))

\* Quotient and remainder of the limbs 1..i of a, with `rem` carried in
\* from the limbs above, by a divisor 0 < d < 2^16.
RECURSIVE DivSmallFrom(_, _, _, _)
DivSmallFrom(a, d, i, rem) ==
    IF i = 0 THEN [q |-> << >>, r |-> rem]
    ELSE Eval(rem * LIMB + a[i], LAMBDA x :
            Eval(DivSmallFrom(a, d, i - 1, x % d), LAMBDA rest :
                [q |-> Append(rest.q, x \div d), r |-> rest.r]))

DivSmall(a0, d) ==
    Eval(a0, LAMBDA a :
        Eval(DivSmallFrom(a, d, Len(a), 0), LAMBDA qr : [q |-> Trim(qr.q), r |-> qr.r]))

RECURSIVE Pow2(_)
Pow2(k) == IF k = 0 THEN 1 ELSE 2 * Pow2(k - 1)

RECURSIVE BitLenSmall(_)
BitLenSmall(n) == IF n = 0 THEN 0 ELSE 1 + BitLenSmall(n \div 2)

\* Number of bits of a
BitLen(a0) ==
    Eval(a0, LAMBDA a :
        IF a = << >> THEN 0 ELSE LIMB_BITS * (Len(a) - 1) + BitLenSmall(a[Len(a)]))

\* a * 2^s
ShiftLeft(a0, s) ==
    Eval(a0, LAMBDA a :
        IF a = << >> THEN << >>
        ELSE [i \in 1..(s \div LIMB_BITS) |-> 0]
             \o Trim(MulSmall(a, Pow2(s % LIMB_BITS), 0)))

\* floor(a / 2^s), with inexact telling whether bits were shifted out
ShiftRight(a0, s) ==
    Eval2(a0, s \div LIMB_BITS, LAMBDA a, n :
        Eval(DivSmall(SubSeq(a, n + 1, Len(a)), Pow2(s % LIMB_BITS)), LAMBDA qr :
            [q |-> qr.q,
             inexact |-> qr.r # 0 \/ \E i \in 1..n : i <= Len(a) /\ a[i] # 0]))

IsOdd(a0) == Eval(a0, LAMBDA a : a # << >> /\ a[1] % 2 = 1)

\* (a + f) / 2^s rounded to the nearest integer, ties to even, where the
\* fraction 0 <= f < 1 is non-zero exactly if `sticky`.
RoundShift(a, s, sticky) ==
    IF s = 0 THEN a
    ELSE Eval(ShiftRight(a, s - 1), LAMBDA low :
            Eval(DivSmall(low.q, 2).q, LAMBDA q :
                IF IsOdd(low.q) /\ (low.inexact \/ sticky \/ IsOdd(q))
                THEN BigAdd(q, << >>, 1)
                ELSE q))

ZeroFloat == [m |-> << >>, e |-> 0]

\* The float nearest to (n + f) * 2^e, f as in RoundShift.  When n has
\* fewer than 53 bits the value is a float already (f must be 0).
Normalize(n0, e, sticky) ==
    Eval(n0, LAMBDA n :
        Eval(BitLen(n) - MANTISSA_BITS, LAMBDA s :
            IF n = << >> THEN ZeroFloat
            ELSE IF s <= 0 THEN [m |-> ShiftLeft(n, 0 - s), e |-> e + s]
            ELSE Eval(RoundShift(n, s, sticky), LAMBDA q :
                    IF BitLen(q) > MANTISSA_BITS
                    THEN [m |-> DivSmall(q, 2).q, e |-> e + s + 1]
                    ELSE [m |-> q, e |-> e + s])))

\* x * y
FMul(x0, y0) ==
    Eval2(x0, y0, LAMBDA x, y : Normalize(BigMul(x.m, y.m), x.e + y.e, FALSE))

\* x + y
FAdd(x0, y0) ==
    Eval2(x0, y0, LAMBDA x, y :
        IF x.m = << >> THEN y
        ELSE IF y.m = << >> THEN x
        ELSE Eval(IF x.e < y.e THEN x.e ELSE y.e, LAMBDA e :
                Normalize(BigAdd(ShiftLeft(x.m, x.e - e), ShiftLeft(y.m, y.e - e), 0),
                          e, FALSE)))

\* sum(...) of floats: 0, then one addition per item, left to right
RECURSIVE FSumFrom(_, _, _)
FSumFrom(acc, xs, i) ==
    IF i > Len(xs) THEN acc ELSE FSumFrom(FAdd(acc, xs[i]), xs, i + 1)

FSum(xs0) == Eval(xs0, LAMBDA xs : FSumFrom(ZeroFloat, xs, 1))

\* Bits below the binary point kept while a decimal is converted.
GUARD_BITS == 75

\* The float of the decimal n / d for a natural n and d in {10, 1000, 10000}:
\* the float nearest to it, as float("...") and float literals give.
FromDecimal(n, d) ==
    Eval(DivSmall(ShiftLeft(ToBig(n), GUARD_BITS), d), LAMBDA qr :
        Normalize(qr.q, 0 - GUARD_BITS, qr.r # 0))

\* Money in mills, hours in tenths, percentages in basis points, as floats.
Money(mills) == FromDecimal(mills, 1000)

Hours(tenths) == FromDecimal(tenths, 10)

Pct(basis_points) == FromDecimal(basis_points, 10000)

\* round(x, 2) of a float x >= 0: the multiple of 0.01 nearest to the exact
\* value of x, ties to even, handed back as the float nearest to it.  The
\* result is given in mills.
Round2(x0) ==
    Eval(x0, LAMBDA x :
        10 * ToInt(IF x.e >= 0
                   THEN ShiftLeft(MulSmall(x.m, 100, 0), x.e)
                   ELSE RoundShift(Trim(MulSmall(x.m, 100, 0)), 0 - x.e, FALSE)))

-----------------------------------------------------------------------------
(* src/app.py: video_decoder_agent                                         *)

\* Mutant of VIDEO_MARKER: the marker names a tire.
VIDEO_MARKER_withKeyword ==
    <<" ","[","V","i","d","e","o",":"," ","t","i","r","e"," ","w","e","a","r",
      ".","]">>

VIDEO_MARKER ==
    <<" ","[","V","i","d","e","o"," ","t","r","a","n","s","c","r","i","p","t",
      " ","m","e","r","g","e","d"," ","i","n","t","o"," ","n","o","t","e","s",
      ".","]">>

video_decoder_agent(technician_text, has_video) ==
    IF has_video
    THEN [decoded_notes |-> technician_text \o VIDEO_MARKER,
          log |-> << "Video Decoder Agent: Received walkaround video + technician notes. Transcribing audio and merging with text input." >>]
    ELSE [decoded_notes |-> technician_text,
          log |-> << "Video Decoder Agent: No video provided. Using technician text only." >>]

-----------------------------------------------------------------------------
(* src/app.py: labor_agent                                                 *)

BRAKE_KEYWORDS ==
    << <<"b","r","a","k","e">>,
       <<"g","r","i","n","d","i","n","g">>,
       <<"s","q","u","e","a","k">>,
       <<"p","a","d","s">>,
       <<"r","o","t","o","r">> >>

ALTERNATOR_KEYWORDS ==
    << <<"a","l","t","e","r","n","a","t","o","r">>,
       <<"c","h","a","r","g","i","n","g">>,
       <<"b","a","t","t","e","r","y">>,
       <<"v","o","l","t","a","g","e">>,
       <<"d","i","m"," ","l","i","g","h","t","s">> >>

TIRE_KEYWORDS ==
    << <<"t","i","r","e">>,
       <<"t","r","e","a","d">>,
       <<"b","a","l","d">>,
       <<"f","l","a","t">>,
       <<"p","u","n","c","t","u","r","e">> >>

SUSPENSION_KEYWORDS ==
    << <<"s","u","s","p","e","n","s","i","o","n">>,
       <<"s","t","r","u","t">>,
       <<"s","h","o","c","k">>,
       <<"c","l","u","n","k">>,
       <<"b","u","m","p","y">>,
       <<"c","o","n","t","r","o","l"," ","a","r","m">> >>

COOLING_KEYWORDS ==
    << <<"c","o","o","l","a","n","t">>,
       <<"r","a","d","i","a","t","o","r">>,
       <<"o","v","e","r","h","e","a","t">>,
       <<"l","e","a","k","i","n","g"," ","w","a","t","e","r">>,
       <<"h","o","s","e","s">> >>

OIL_LEAK_KEYWORDS ==
    << <<"o","i","l"," ","l","e","a","k">>,
       <<"b","u","r","n","i","n","g"," ","s","m","e","l","l">>,
       <<"v","a","l","v","e"," ","c","o","v","e","r">>,
       <<"g","a","s","k","e","t">>,
       <<"d","r","i","p","p","i","n","g">> >>

TUNE_UP_KEYWORDS ==
    << <<"s","p","a","r","k"," ","p","l","u","g">>,
       <<"t","u","n","e"," ","u","p">>,
       <<"m","i","s","f","i","r","e">>,
       <<"r","o","u","g","h"," ","i","d","l","e">> >>

\* One labor line as labor_agent first appends it (line_total is set later).
LaborLine(code, desc, hours, labor_rate) ==
    [operation_code |-> code, description |-> desc,
     hours |-> hours, rate |-> labor_rate]

\* op["line_total"] = round(op["hours"] * op["rate"], 2)
WithLineTotal(op) ==
    [operation_code |-> op.operation_code, description |-> op.description,
     hours |-> op.hours, rate |-> op.rate,
     line_total |-> Round2(FMul(Hours(op.hours), Money(op.rate)))]

\* Mutant of LaborText: the notes are searched as written, without lower().
LaborText_caseSensitive(decoded_notes) == decoded_notes

\* text = decoded_notes.lower()
LaborText(decoded_notes) == Lower(decoded_notes)

labor_agent(decoded_notes, labor_rate) ==
    LET text == LaborText(decoded_notes)
        g1 == AnyIn(text, BRAKE_KEYWORDS)
        g2 == AnyIn(text, ALTERNATOR_KEYWORDS)
        g3 == AnyIn(text, TIRE_KEYWORDS)
        g4 == AnyIn(text, SUSPENSION_KEYWORDS)
        g5 == AnyIn(text, COOLING_KEYWORDS)
        g6 == AnyIn(text, OIL_LEAK_KEYWORDS)
        g7 == AnyIn(text, TUNE_UP_KEYWORDS)
        matched ==
            (IF g1 THEN << LaborLine("RR-BRAKE", "Replace rear brake pads and rotors", 20, labor_rate) >> ELSE << >>)
         \o (IF g2 THEN << LaborLine("ALT-REPL", "Alternator replacement", 25, labor_rate) >> ELSE << >>)
         \o (IF g3 THEN << LaborLine("TIRE-SET", "Mount and Balance 4 Tires", 15, labor_rate) >> ELSE << >>)
         \o (IF g4 THEN << LaborLine("SUSP-FRONT", "Replace Front Suspension Components (Struts/Arms)", 35, labor_rate) >> ELSE << >>)
         \o (IF g5 THEN << LaborLine("COOLING-SYS", "Cooling System Service (Radiator & Flush)", 40, labor_rate) >> ELSE << >>)
         \o (IF g6 THEN << LaborLine("OIL-LEAK", "Reseal Valve Cover Gaskets", 30, labor_rate) >> ELSE << >>)
         \o (IF g7 THEN << LaborLine("SPARK-PLUG", "Spark Plug Replacement & Tune-up", 15, labor_rate) >> ELSE << >>)
        matched_log ==
            (IF g1 THEN << "Added labor line: Rear brake pads & rotors (2.0 hrs)." >> ELSE << >>)
         \o (IF g2 THEN << "Added labor line: Alternator replacement (2.5 hrs)." >> ELSE << >>)
         \o (IF g3 THEN << "Added labor line: Mount and Balance 4 Tires (1.5 hrs)." >> ELSE << >>)
         \o (IF g4 THEN << "Added labor line: Front Suspension Overhaul (3.5 hrs)." >> ELSE << >>)
         \o (IF g5 THEN << "Added labor line: Radiator & Cooling System Service (4.0 hrs)." >> ELSE << >>)
         \o (IF g6 THEN << "Added labor line: Engine Oil Leak Repair (3.0 hrs)." >> ELSE << >>)
         \o (IF g7 THEN << "Added labor line: Spark Plug Service (1.5 hrs)." >> ELSE << >>)
        \* Fallback if nothing matches: `if not labor_ops`
        ops == IF matched = << >>
               THEN << LaborLine("GEN-DIAG", "General Diagnosis (No specific system matched)", 10, labor_rate) >>
               ELSE matched
        log == << "AI Labor Agent: Interpreting technician notes and mapping to labor operations." >>
               \o matched_log
               \o (IF matched = << >>
                   THEN << "No specific concerns matched. Added generic diagnostic labor line (1.0 hr)." >>
                   ELSE << >>)
    IN  [labor_ops |-> [i \in 1..Len(ops) |-> WithLineTotal(ops[i])],
         log |-> log]

-----------------------------------------------------------------------------
(* src/services/catalog_service.py: CatalogService                         *)

\* row["make"].upper() and make.upper()
MakeUpper(m) == Upper(m)

\* One catalog row as _load_catalog stores it: unit_price and cost_price
\* are already floats (mills here).
CatalogRow(make, code, number, desc, price, cost) ==
    [make |-> make, operation_code |-> code, part_number |-> number,
     description |-> desc, unit_price |-> price, cost_price |-> cost,
     stock_source |-> "Dealer Stock", availability |-> "In Stock"]

\* Python dicts are objects: two names can stand for one dict, and a write
\* through either is seen through both.  A reference names a dict: a row of
\* self.db by its position in the list, or a dict created since, by its
\* number.
StoredRef(k) == [region |-> "db", index |-> k]

NewRef(n) == [region |-> "new", index |-> n]

\* The dicts in reach of a lookup: the rows of self.db, and the dicts
\* created since.
Store(db, new) == [db |-> db, new |-> new]

\* The dict a reference names.
Deref(store, ref) == store[ref.region][ref.index]

\* d[key] = value on a dict d
Put(d, key, value) ==
    [k \in DOMAIN d \cup {key} |-> IF k = key THEN value ELSE d[k]]

\* item[key] = value: the dict that item names is updated where it lives.
SetItem(store, item, key, value) ==
    [store EXCEPT ![item.region][item.index] = Put(@, key, value)]

\* Mutant of RowCopy: `item = row`, so item names the stored row itself.
RowCopy_alias(store, row) == [store |-> store, item |-> row]

\* item = row.copy(): a new dict with the entries of row.  The values of a
\* row are strings and floats, so the two dicts share nothing mutable.
RowCopy(store, row) ==
    [store |-> [store EXCEPT !.new = Append(@, Deref(store, row))],
     item |-> NewRef(Len(store.new) + 1)]

\* The body of `for row in self.db`, from row i on, with the list `matches`
\* built so far: item = row.copy(); item["qty"] = 1;
\* item["line_total"] = item["qty"] * item["unit_price"]; matches.append(item)
RECURSIVE LookupLoop(_, _, _, _, _)
LookupLoop(store, i, make, op_code, found) ==
    IF i > Len(store.db)
    THEN [store |-> store, matches |-> found]
    ELSE LET row == StoredRef(i)
         IN  IF /\ MakeUpper(Deref(store, row).make) = MakeUpper(make)
                /\ Deref(store, row).operation_code = op_code
             THEN LET copied == RowCopy(store, row)
                      item == copied.item
                      s1 == SetItem(copied.store, item, "qty", 1)
                      s2 == SetItem(s1, item, "line_total",
                                    Deref(s1, item).qty * Deref(s1, item).unit_price)
                  IN  LookupLoop(s2, i + 1, make, op_code, Append(found, item))
             ELSE LookupLoop(store, i + 1, make, op_code, found)

\* The dicts a list of references names, in order.
Rows(store, refs) == [j \in 1..Len(refs) |-> Deref(store, refs[j])]

\* get_parts_for_op(make, op_code) on a service whose self.db is db: the
\* list it returns, row by row.
get_parts_for_op(db, make, op_code) ==
    LET looked == LookupLoop(Store(db, << >>), 1, make, op_code, << >>)
    IN  Rows(looked.store, looked.matches)

\* The one row get_parts_for_op returns for a catalog of that row alone.
CatalogItem(row) == get_parts_for_op(<< row >>, row.make, row.operation_code)[1]

\* The positions in self.db of the rows get_parts_for_op matches, in order.
MatchOrigins(db, make, op_code) ==
    SelectSeq([k \in 1..Len(db) |-> k],
              LAMBDA k : /\ MakeUpper(db[k].make) = MakeUpper(make)
                         /\ db[k].operation_code = op_code)

\* The object CatalogService(data_dir) after __init__ has loaded `rows`.
CatalogService(rows) == [type |-> "CatalogService", db |-> rows]

\* The names a CatalogService instance answers to.
CatalogServiceAttrs == {"catalog_file", "db", "_load_catalog", "get_parts_for_op"}

-----------------------------------------------------------------------------
(* src/app.py: parts_agent                                                 *)

\* st.session_state.get(key): None when the key is absent
SessionGet(ss, key) == IF key \in DOMAIN ss THEN ss[key] ELSE NoneVal

\* catalog.lookup_parts(vehicle_make, op_code): CatalogService has no
\* attribute of that name, so the call raises AttributeError.
CatalogLookupParts(catalog, vehicle_make, op_code) ==
    IF "lookup_parts" \in CatalogServiceAttrs
    THEN [raised |-> FALSE, exc |-> "", value |-> get_parts_for_op(catalog.db, vehicle_make, op_code)]
    ELSE [raised |-> TRUE, exc |-> "AttributeError", value |-> << >>]

\* The part line appended for a catalog match p of operation op_code.
FoundPartLine(op_code, p) ==
    [operation_code |-> op_code, part_number |-> p.part_number,
     description |-> p.description, qty |-> 1, unit_price |-> p.unit_price,
     stock_source |-> p.stock_source, availability |-> p.availability,
     line_total |-> p.unit_price * 1]

GEN_PART_NUMBER == <<"G","E","N","-","P","A","R","T">>

GEN_PART_PRICE == 50000

\* The generic placeholder line of an operation without catalog parts.  Its
\* description f"Generic Part for {op_code}" is kept as its two pieces.
GenericPartLine(op_code) ==
    [operation_code |-> op_code, part_number |-> GEN_PART_NUMBER,
     description |-> << "Generic Part for ", op_code >>, qty |-> 1,
     unit_price |-> GEN_PART_PRICE, stock_source |-> "Local Auto Parts",
     availability |-> "On Demand", line_total |-> GEN_PART_PRICE]

\* The body of `for op in labor_ops`, from operation i on, with the lines
\* and the log accumulated so far.  An exception ends the loop.
RECURSIVE PartsLoop(_, _, _, _, _, _)
PartsLoop(labor_ops, i, vehicle_make, catalog, lines, log) ==
    IF i > Len(labor_ops)
    THEN [raised |-> FALSE, exc |-> "", parts_lines |-> lines, log |-> log]
    ELSE LET op_code == labor_ops[i].operation_code
             looked == IF catalog # NoneVal
                       THEN CatalogLookupParts(catalog, vehicle_make, op_code)
                       ELSE [raised |-> FALSE, exc |-> "", value |-> << >>]
             found_parts == looked.value
         IN  IF looked.raised
             THEN [raised |-> TRUE, exc |-> looked.exc, parts_lines |-> lines, log |-> log]
             ELSE IF found_parts # << >>
             THEN PartsLoop(labor_ops, i + 1, vehicle_make, catalog,
                      lines \o [k \in 1..Len(found_parts) |-> FoundPartLine(op_code, found_parts[k])],
                      Append(log, "Found " \o ToString(Len(found_parts)) \o " parts for operation " \o op_code \o "."))
             ELSE IF op_code # "GEN-DIAG"
             THEN PartsLoop(labor_ops, i + 1, vehicle_make, catalog,
                      Append(lines, GenericPartLine(op_code)),
                      Append(log, "No specific parts found for " \o op_code \o " on " \o Str(vehicle_make) \o ". Adding generic placeholder."))
             ELSE PartsLoop(labor_ops, i + 1, vehicle_make, catalog, lines, log)

\* parts_agent: the record it returns, or the exception that leaves it.
parts_agent(labor_ops, vehicle_make, ss) ==
    PartsLoop(labor_ops, 1, vehicle_make, SessionGet(ss, "catalog_service"),
              << >>,
              << "AI Parts Agent: Looking up parts for vehicle make: " \o Str(vehicle_make) >>)

-----------------------------------------------------------------------------
(* src/app.py: estimate_generator                                          *)

LineTotals(lines) == [i \in 1..Len(lines) |-> lines[i].line_total]

\* f"{x:,.2f}": the digits of a natural number with a comma before every
\* group of three
RECURSIVE Grouped(_)
Grouped(n) ==
    IF n < 1000 THEN ToString(n)
    ELSE LET low == n % 1000
         IN  Grouped(n \div 1000) \o ","
                 \o (IF low < 10 THEN "00" ELSE IF low < 100 THEN "0" ELSE "")
                 \o ToString(low)

\* f"${x:,.2f}" of the float nearest to mills / 1000: the format rounds the
\* float to two places as round does.
FormatMoney(mills) ==
    Eval(Round2(Money(mills)) \div 10, LAMBDA cents :
        "$" \o Grouped(cents \div 100) \o "."
            \o (IF cents % 100 < 10 THEN "0" ELSE "") \o ToString(cents % 100))

\* The sums and products are floats; every entry of the summary is a float
\* rounded to two places, kept as mills.
estimate_generator(labor_ops, parts_lines, shop_fees_pct, tax_pct) ==
    LET labor_subtotal == FSum([i \in 1..Len(labor_ops) |-> Money(LineTotals(labor_ops)[i])])
        parts_subtotal == FSum([i \in 1..Len(parts_lines) |-> Money(LineTotals(parts_lines)[i])])
        subtotal == FAdd(labor_subtotal, parts_subtotal)
        shop_fees == Round2(FMul(subtotal, Pct(shop_fees_pct)))
        tax == Round2(FMul(FAdd(subtotal, Money(shop_fees)), Pct(tax_pct)))
        grand_total == Round2(FAdd(FAdd(subtotal, Money(shop_fees)), Money(tax)))
    IN  [summary |-> [labor_subtotal |-> Round2(labor_subtotal),
                      parts_subtotal |-> Round2(parts_subtotal),
                      shop_fees |-> shop_fees,
                      tax |-> tax,
                      grand_total |-> grand_total],
         log |-> << "Estimate Generator Agent: Summarizing labor and parts into a customer-facing estimate.",
                    "Computed estimate totals. Grand total: " \o FormatMoney(grand_total) \o "." >>]

-----------------------------------------------------------------------------
(* src/services/validation_service.py: ValidationService                   *)

MIN_PARTS_MARGIN == 2500

MAX_AUTO_APPROVAL == 4000000

ValidationService ==
    [type |-> "ValidationService",
     MIN_PARTS_MARGIN |-> MIN_PARTS_MARGIN,
     MAX_AUTO_APPROVAL |-> MAX_AUTO_APPROVAL]

\* dict.get(key, default)
Get(d, key, default) == IF key \in DOMAIN d THEN d[key] ELSE default

TIRE == <<"T","I","R","E">>

SHOP_SUPPLIES_MSG == "Profit Alert: Shop Supplies are set to $0.00."

SALES_TAX_MSG == "Compliance Alert: Sales Tax is currently $0.00."

APPROVAL_MSG_PREFIX == "Manager Approval Required: Estimate ("

ApprovalMsg(grand_total) ==
    APPROVAL_MSG_PREFIX \o FormatMoney(grand_total) \o ") exceeds limit."

TireMsg(part) ==
    "Margin Check: High-value tire (" \o Str(part.part_number) \o ") detected."

Flagged(msg) == ":red[FLAGGED: " \o msg \o "]"

\* RULE 3: the warnings of the part lines, in order
RECURSIVE TireWarnings(_)
TireWarnings(parts_lines) ==
    IF parts_lines = << >> THEN << >>
    ELSE LET part == Head(parts_lines)
         IN  (IF Contains(Get(part, "part_number", << >>), TIRE)
                 /\ Get(part, "unit_price", 0) > 200000
              THEN << TireMsg(part) >> ELSE << >>)
             \o TireWarnings(Tail(parts_lines))

\* Mutant of Rule1Warnings: the thresholds are compared with < instead of <=.
Rule1Warnings_strict(labor_total, shop_fees, tax_amount) ==
    (IF labor_total > 0 /\ shop_fees < 10 THEN << SHOP_SUPPLIES_MSG >> ELSE << >>)
 \o (IF labor_total > 0 /\ tax_amount < 10 THEN << SALES_TAX_MSG >> ELSE << >>)

\* RULE 1: `if labor_total > 0:` then the two independent `if`s
Rule1Warnings(labor_total, shop_fees, tax_amount) ==
    (IF labor_total > 0 /\ shop_fees <= 10 THEN << SHOP_SUPPLIES_MSG >> ELSE << >>)
 \o (IF labor_total > 0 /\ tax_amount <= 10 THEN << SALES_TAX_MSG >> ELSE << >>)

\* Mutant of FinalDecision: the final `if` is missing, so only the ceiling
\* rule can set review.
FinalDecision_keepsStatus(warnings, status) == status

\* `if warnings and status == "pass": status = "review"`
FinalDecision(warnings, status) ==
    IF warnings # << >> /\ status = "pass" THEN "review" ELSE status

validate_estimate(self, estimate_summary, parts_lines) ==
    LET labor_total == Get(estimate_summary, "labor_subtotal", 0)
        shop_fees   == Get(estimate_summary, "shop_fees", 0)
        tax_amount  == Get(estimate_summary, "tax", 0)
        grand_total == Get(estimate_summary, "grand_total", 0)
        \* RULE 1
        w1 == Rule1Warnings(labor_total, shop_fees, tax_amount)
        \* RULE 2
        big == grand_total > self.MAX_AUTO_APPROVAL
        w2 == IF big THEN << ApprovalMsg(grand_total) >> ELSE << >>
        \* RULE 3
        w3 == TireWarnings(parts_lines)
        warnings == w1 \o w2 \o w3
        status == FinalDecision(warnings, IF big THEN "review" ELSE "pass")
    IN  [status |-> status,
         warnings |-> warnings,
         log |-> << "Validation Service: Starting compliance check..." >>
                 \o [i \in 1..Len(warnings) |-> Flagged(warnings[i])]
                 \o << IF status = "pass"
                       THEN ":green[Validation Complete: Estimate looks good.]"
                       ELSE ":red[Validation Complete: Found " \o ToString(Len(warnings)) \o " issues.]" >>]

\* src/app.py: validation_agent
validation_agent(estimate_summary, labor_ops, parts_lines, ss) ==
    IF "validation_service" \notin DOMAIN ss
    THEN [status |-> "pass", warnings |-> << >>]
    ELSE validate_estimate(ss["validation_service"], estimate_summary, parts_lines)

-----------------------------------------------------------------------------
(* src/services/vin_decoder.py: VinDecoder                                 *)

VinProfile(make, model, year, engine, trim, drivetrain, vehicle_type, confidence) ==
    [make |-> make, model |-> model, year |-> year, engine |-> engine,
     trim |-> trim, drivetrain |-> drivetrain, vehicle_type |-> vehicle_type,
     confidence |-> confidence]

\* The object VinDecoder(data_dir) after _load_data.
VinDecoder(wmi_db, rules_db) ==
    [type |-> "VinDecoder", wmi_db |-> wmi_db, rules_db |-> rules_db]

\* year_map: the letters stand for 2010.., the digits for 2001..2009
YEAR_LETTERS ==
    << "A","B","C","D","E","F","G","H","J","K","L","M","N","P","R","S" >>

YEAR_DIGITS == << "1","2","3","4","5","6","7","8","9" >>

\* year_map.get(year_char, 2000)
YearOf(year_char) ==
    IF \E i \in 1..Len(YEAR_LETTERS) : YEAR_LETTERS[i] = year_char
    THEN 2009 + (CHOOSE i \in 1..Len(YEAR_LETTERS) : YEAR_LETTERS[i] = year_char)
    ELSE IF \E i \in 1..Len(YEAR_DIGITS) : YEAR_DIGITS[i] = year_char
    THEN 2000 + (CHOOSE i \in 1..Len(YEAR_DIGITS) : YEAR_DIGITS[i] = year_char)
    ELSE 2000

\* "Dummy Model Logic": the if/elif chain on make
ModelOf(make) ==
    CASE make = "HONDA" -> "CIVIC"
      [] make = "FORD" -> "F-150"
      [] make = "TOYOTA" -> "CAMRY"
      [] make = "CHEVROLET" -> "SILVERADO"
      [] make = "RAM" -> "1500"
      [] make = "JEEP" -> "WRANGLER"
      [] make = "DODGE" -> "CHALLENGER"
      [] OTHER -> "Unknown Model"

DRIVETRAINS == {"FWD", "RWD", "AWD", "4WD"}

Elements(s) == { s[i] : i \in 1..Len(s) }

\* vin = vin.upper().strip()
NormalizeVin(vin) == Strip(Upper(vin))

\* random.choice(seq) raises IndexError on an empty sequence.
Returned(value) == [raised |-> FALSE, exc |-> "", value |-> value]

Raised(exc) == [raised |-> TRUE, exc |-> exc, value |-> NoneVal]

\* decode(self, vin): the outcomes of the call, a returned profile or the
\* exception that leaves it; random.choice picks any element of its list.
decode(self, vin0) ==
    LET vin == NormalizeVin(vin0)
    IN  IF Len(vin) # 17
        THEN { Returned(VinProfile("UNKNOWN", "UNKNOWN", 0, "UNKNOWN", "UNKNOWN", "UNKNOWN", "UNKNOWN", 0)) }
        ELSE
        LET year == YearOf(vin[10])
            wmi == SubSeq(vin, 1, 3)
            wmi_data == Get(self.wmi_db, wmi, [make |-> "UNKNOWN", type |-> "UNKNOWN"])
            make == wmi_data.make
            vehicle_type == wmi_data.type
        IN  IF make = "UNKNOWN"
            THEN { Returned(VinProfile(make, "Unknown Model", year, "UNKNOWN", "UNKNOWN", "UNKNOWN", vehicle_type, 0)) }
            ELSE
            LET has_rule == make \in DOMAIN self.rules_db
                engine_list == IF has_rule
                               THEN Get(self.rules_db[make], "engines", << "Standard Engine" >>)
                               ELSE << "UNKNOWN" >>
                trim_list == IF has_rule
                             THEN Get(self.rules_db[make], "trims", << "Base" >>)
                             ELSE << "UNKNOWN" >>
            IN  IF engine_list = << >> \/ trim_list = << >>
                THEN { Raised("IndexError") }
                ELSE { Returned(VinProfile(make, ModelOf(make), year, e, tr, d, vehicle_type, 8)) :
                         e \in Elements(engine_list), tr \in Elements(trim_list),
                         d \in DRIVETRAINS }

-----------------------------------------------------------------------------
(* Inputs of the model                                                     *)

\* Longest technician text, in fragments.
MaxFrags == 2

\* Pieces of technician notes: keywords in several cases, and words that
\* are no keyword alone ("oil ", "leak") but form one when concatenated.
Fragments ==
    { <<"B","r","a","k","e">>,
      <<"b","a","t","t","e","r","y">>,
      <<"T","I","R","E">>,
      <<"s","t","r","u","t">>,
      <<"c","o","o","l","a","n","t">>,
      <<"o","i","l"," ">>,
      <<"l","e","a","k">>,
      <<"d","r","i","p","p","i","n","g">>,
      <<"s","p","a","r","k"," ","p","l","u","g">> }

\* The texts of at most n pieces drawn from frags.
TextsOf(frags, n) ==
    { Flatten(fs) : fs \in UNION { [1..k -> frags] : k \in 0..n } }

\* Notes handed to labor_agent when it is called on its own.
TechnicianTexts == TextsOf(Fragments, MaxFrags)

\* The pieces of the technician text of a whole pipeline run.
PipelineFragments ==
    { <<"B","r","a","k","e">>,
      <<"T","I","R","E">>,
      <<"o","i","l"," ">> }

PipelineTexts == TextsOf(PipelineFragments, MaxFrags)

\* Labor rates ($/hr, in mills): 0, 0.001, 0.01 and the UI default 160.0.
LaborRates == {0, 1, 10, 160000}

\* Labor rates of a whole pipeline run: 0.001 and the UI default 160.0.
PipelineRates == {1, 160000}

\* Shop fee percentages (basis points): 0% and 5%.
ShopFeePcts == {0, 500}

\* Tax percentages (basis points): 0% and 8.25%.
TaxPcts == {0, 825}

VehicleMakes == {<<"H","O","N","D","A">>, <<"f","O","r","D">>}

\* The shop fee percentage of a whole pipeline run: the UI default 5%.
PipelineFeePcts == {500}

\* The make of a whole pipeline run that the page does not start.
PipelineMakes == {<<"H","O","N","D","A">>}

\* Rows of data/parts_catalog.csv as loaded (prices in mills).
CatalogRows ==
    << CatalogRow(<<"H","o","n","d","a">>, "RR-BRAKE", <<"B","R","-","1">>,
                  <<"R","e","a","r"," ","R","o","t","o","r">>, 85125, 40000),
       CatalogRow(<<"H","o","n","d","a">>, "RR-BRAKE", <<"B","R","-","2">>,
                  <<"B","r","a","k","e"," ","P","a","d"," ","S","e","t">>, 45990, 20000),
       CatalogRow(<<"F","O","R","D">>, "TIRE-SET", <<"T","I","R","E","-","A","T">>,
                  <<"A","l","l"," ","T","e","r","r","a","i","n"," ","T","i","r","e">>, 250000, 150000),
       CatalogRow(<<"H","O","N","D","A">>, "GEN-DIAG", <<"D","G","-","1">>,
                  <<"S","c","a","n"," ","A","d","a","p","t","e","r">>, 19995, 5000) >>

\* The catalog a session can hold: the file was empty or missing, or it
\* held CatalogRows.
Catalogs == { << >>, CatalogRows }

\* Rows of data/wmi_make.csv as loaded.
WmiTable ==
    [p \in { <<"1","H","G">>, <<"1","F","T">>, <<"5","Y","J">> } |->
        CASE p = <<"1","H","G">> -> [make |-> "HONDA", type |-> "Car"]
          [] p = <<"1","F","T">> -> [make |-> "FORD", type |-> "Truck"]
          [] OTHER -> [make |-> "TESLA", type |-> "Car"]]

\* The content of data/vin_rules.json as loaded.
RulesTable ==
    [m \in {"HONDA", "FORD"} |->
        IF m = "HONDA"
        THEN [engines |-> << "1.5L Turbo", "3.5L V6" >>, trims |-> << "LX", "EX" >>]
        ELSE [engines |-> << "5.0L V8" >>]]

EmptyTable == [k \in {} |-> NoneVal]

\* A vin_rules.json whose rule for HONDA lists no engine.
RulesTableNoEngine ==
    [m \in {"HONDA"} |-> [engines |-> << >>, trims |-> << "LX" >>]]

\* A reference file is missing (empty table) or present.
VinDecoders ==
    { VinDecoder(w, r) : w \in {EmptyTable, WmiTable},
                         r \in {EmptyTable, RulesTable, RulesTableNoEngine} }

\* st.session_state as a caller of the agents can find it before the UI
\* script has written to it: each service is installed or not.  parts_agent
\* and validation_agent both test for the absence.
SessionStates ==
    { [k \in keys |-> IF k = "catalog_service" THEN CatalogService(rows)
                      ELSE ValidationService] :
        keys \in SUBSET {"catalog_service", "validation_service"},
        rows \in Catalogs }

\* st.session_state[key] = value
SessionSet(ss, key, value) ==
    [k \in DOMAIN ss \cup {key} |-> IF k = key THEN value ELSE ss[k]]

\* if key not in st.session_state: st.session_state[key] = value
SessionSetDefault(ss, key, value) ==
    IF key \in DOMAIN ss THEN ss ELSE SessionSet(ss, key, value)

\* The VIN field of the page: its default value, the VIN of a Ford truck,
\* or emptied by the user.
VinFieldValues ==
    { <<"1","H","G","C","M","8","2","6","3","3","A","1","2","3","4","5","1">>,
      <<"1","F","T","C","M","8","2","6","3","3","A","1","2","3","4","5","1">>,
      << >> }

\* The reference files the page's VinDecoder finds: the prefix table with
\* no rule file, or with one whose rule for HONDA lists no engine.
PageVinDecoders ==
    { VinDecoder(WmiTable, EmptyTable), VinDecoder(WmiTable, RulesTableNoEngine) }

\* The notes field: a scenario with blanks around it, and blanks alone.
PageTexts == { <<" ","B","r","a","k","e"," ">>, <<" ">> }

\* The widgets of the sidebar: video included or not, and the defaults
\* $160.00 per hour, 5% shop fees, 0% tax.
PageVideoFlags == BOOLEAN

PageLaborRates == {160000}

PageShopFeePcts == {500}

PageTaxPcts == {0}

-----------------------------------------------------------------------------
(* src/app.py: the page script, and run_full_pipeline with one action per  *)
(* statement                                                               *)

Idle ==
    /\ pc = "idle" /\ run_clicked = FALSE /\ input = NoneVal /\ video = NoneVal
    /\ labor = NoneVal /\ parts = NoneVal /\ estimate = NoneVal
    /\ validation = NoneVal /\ result = NoneVal /\ raised = NoneVal

Init ==
    /\ session_state \in SessionStates
    /\ Idle
    /\ args = NoneVal
    /\ ret = NoneVal
    /\ matches = << >>
    /\ objects = << >>

\* The script down to the run button: the services are installed where the
\* session lacks them (the files of the data directory are loaded), the
\* VIN in the field, unless empty, is decoded into vin_profile, and
\* pipeline_result starts as None.  An exception of decode ends the script
\* at that line; the session keeps what was written before it.
ScriptTop(ss, rows, decoder, vin_input) ==
    LET installed ==
            SessionSetDefault(
                SessionSetDefault(
                    SessionSetDefault(ss, "catalog_service", CatalogService(rows)),
                    "validation_service", ValidationService),
                "vin_decoder", decoder)
    IN  IF vin_input = << >>
        THEN { [raised |-> FALSE,
                session |-> SessionSetDefault(installed, "pipeline_result", NoneVal)] }
        ELSE { IF profile.raised
               THEN [raised |-> TRUE, session |-> installed]
               ELSE [raised |-> FALSE,
                     session |-> SessionSetDefault(
                                     SessionSet(installed, "vin_profile", profile.value),
                                     "pipeline_result", NoneVal)] :
                 profile \in decode(installed["vin_decoder"], vin_input) }

\* A make as the text handed to parts_agent.
MakeChars(make) ==
    CASE make = "HONDA" -> <<"H","O","N","D","A">>
      [] make = "FORD" -> <<"F","O","R","D">>
      [] make = "TESLA" -> <<"T","E","S","L","A">>

\* detected_make: the make of the decoded VIN, "HONDA" without one
DetectedMake(ss) ==
    IF /\ "vin_profile" \in DOMAIN ss
       /\ ss["vin_profile"] # NoneVal
       /\ ss["vin_profile"].confidence > 0
    THEN MakeChars(ss["vin_profile"].make)
    ELSE <<"H","O","N","D","A">>

\* The arguments the handler of the run button hands run_full_pipeline:
\* technician_text.strip(), has_video, float(labor_rate),
\* shop_fees_pct / 100.0, tax_pct / 100.0 and the detected make.
HandlerInput(technician_text, has_video, labor_rate, shop_fees_pct, tax_pct, detected_make) ==
    [technician_text |-> Strip(technician_text), has_video |-> has_video,
     labor_rate |-> labor_rate, shop_fees_pct |-> shop_fees_pct,
     tax_pct |-> tax_pct, vehicle_make |-> detected_make]

\* Streamlit runs the script (the page is opened, or a widget changed); the
\* run button was not clicked, so the script only installs, decodes and
\* shows what the session holds.
Rerun ==
    /\ pc = "idle"
    /\ \E rows \in Catalogs, decoder \in PageVinDecoders, vin_input \in VinFieldValues :
          \E top \in ScriptTop(session_state, rows, decoder, vin_input) :
              session_state' = top.session
    /\ UNCHANGED << pipeline_vars, args, ret, lookup_vars >>

\* The run button is clicked: Streamlit runs the script from its first line
\* with run_clicked true.  The script installs and decodes as on every run;
\* if decode raised, the script has ended before the handler.  The handler
\* warns about blank notes, and otherwise calls run_full_pipeline with the
\* values of the widgets and the make of the VIN just decoded.
RunClicked ==
    /\ pc = "idle"
    /\ \E rows \in Catalogs, decoder \in PageVinDecoders, vin_input \in VinFieldValues,
          technician_text \in PageTexts, has_video \in PageVideoFlags,
          labor_rate \in PageLaborRates, shop_fees_pct \in PageShopFeePcts,
          tax_pct \in PageTaxPcts :
          \E top \in ScriptTop(session_state, rows, decoder, vin_input) :
              /\ session_state' = top.session
              /\ IF ~top.raised /\ Strip(technician_text) # << >>
                 THEN /\ pc' = "video"
                      /\ run_clicked' = TRUE
                      /\ input' = HandlerInput(technician_text, has_video, labor_rate,
                                               shop_fees_pct, tax_pct,
                                               DetectedMake(top.session))
                 ELSE UNCHANGED << pc, run_clicked, input >>
    /\ UNCHANGED << video, labor, parts, estimate, validation, result, raised,
                    args, ret, lookup_vars >>

\* run_full_pipeline(technician_text, has_video, labor_rate, shop_fees_pct,
\*                   tax_pct, vehicle_make) is called by a caller other than
\* the page, with arguments of its own; the session is as the caller finds
\* it, and the caller keeps the list of an earlier catalog lookup.
Call ==
    /\ pc = "idle"
    /\ \E text \in PipelineTexts, hv \in BOOLEAN, rate \in PipelineRates,
          fee \in PipelineFeePcts, tax \in TaxPcts, make \in PipelineMakes :
          input' = [technician_text |-> text, has_video |-> hv,
                    labor_rate |-> rate, shop_fees_pct |-> fee,
                    tax_pct |-> tax, vehicle_make |-> make]
    /\ pc' = "video"
    /\ run_clicked' = FALSE
    /\ UNCHANGED << session_state, video, labor, parts, estimate, validation,
                    result, raised, args, ret, lookup_vars >>

\* video = video_decoder_agent(technician_text, has_video)
VideoStage ==
    /\ pc = "video"
    /\ video' = video_decoder_agent(input.technician_text, input.has_video)
    /\ pc' = "labor"
    /\ UNCHANGED << session_state, run_clicked, input, labor, parts, estimate, validation,
                    result, raised, args, ret,
                    lookup_vars >>

\* labor = labor_agent(video["decoded_notes"], labor_rate)
LaborStage ==
    /\ pc = "labor"
    /\ labor' = labor_agent(video.decoded_notes, input.labor_rate)
    /\ pc' = "parts"
    /\ UNCHANGED << session_state, run_clicked, input, video, parts, estimate, validation,
                    result, raised, args, ret,
                    lookup_vars >>

\* parts = parts_agent(labor["labor_ops"], vehicle_make); an exception
\* raised inside parts_agent leaves run_full_pipeline.
PartsStage ==
    /\ pc = "parts"
    /\ LET r == parts_agent(labor.labor_ops, input.vehicle_make, session_state)
       IN  IF r.raised
           THEN /\ raised' = [type |-> r.exc, stage |-> "parts"]
                /\ pc' = "raised"
                /\ parts' = parts
           ELSE /\ parts' = [parts_lines |-> r.parts_lines, log |-> r.log]
                /\ pc' = "estimate"
                /\ raised' = raised
    /\ UNCHANGED << session_state, run_clicked, input, video, labor, estimate, validation,
                    result, args, ret,
                    lookup_vars >>

\* estimate = estimate_generator(labor_ops, parts_lines, shop_fees_pct, tax_pct)
EstimateStage ==
    /\ pc = "estimate"
    /\ estimate' = estimate_generator(labor.labor_ops, parts.parts_lines,
                                      input.shop_fees_pct, input.tax_pct)
    /\ pc' = "validation"
    /\ UNCHANGED << session_state, run_clicked, input, video, labor, parts, validation,
                    result, raised, args, ret,
                    lookup_vars >>

\* validation = validation_agent(summary, labor_ops, parts_lines)
ValidationStage ==
    /\ pc = "validation"
    /\ validation' = validation_agent(estimate.summary, labor.labor_ops,
                                      parts.parts_lines, session_state)
    /\ pc' = "return"
    /\ UNCHANGED << session_state, run_clicked, input, video, labor, parts, estimate,
                    result, raised, args, ret,
                    lookup_vars >>

\* return {"input": ..., "video_decoder": video, "labor": labor, ...}
Return ==
    /\ pc = "return"
    /\ result' = [input |-> input, video_decoder |-> video, labor |-> labor,
                  parts |-> parts, estimate |-> estimate,
                  validation |-> validation]
    /\ pc' = "done"
    /\ UNCHANGED << session_state, run_clicked, input, video, labor, parts, estimate,
                    validation, raised, args, ret,
                    lookup_vars >>

\* The run has ended.  In the handler of the run button the returned
\* result is stored, st.session_state["pipeline_result"] = result; an
\* exception that left run_full_pipeline leaves the handler and the script
\* too, and nothing is stored.  (The script has installed the catalog
\* service before the handler runs, so parts_agent raises in every run of
\* the page and the assignment is never reached.)  A caller other than the
\* page keeps the result or the exception to itself.  The locals of the run
\* are gone.
NextRun ==
    /\ pc \in {"done", "raised"}
    /\ session_state' = IF run_clicked /\ pc = "done"
                        THEN SessionSet(session_state, "pipeline_result", result)
                        ELSE session_state
    /\ pc' = "idle"
    /\ run_clicked' = FALSE
    /\ input' = NoneVal /\ video' = NoneVal /\ labor' = NoneVal
    /\ parts' = NoneVal /\ estimate' = NoneVal /\ validation' = NoneVal
    /\ result' = NoneVal /\ raised' = NoneVal
    /\ UNCHANGED << args, ret, lookup_vars >>

\* The operation code of a direct catalog lookup: the rear-brake job, for
\* which CatalogRows holds two Honda rows and no Ford row.
LookupOpCodes == {"RR-BRAKE"}

\* session_state with the rows of its catalog service replaced by db
WithDb(ss, db) == [ss EXCEPT !["catalog_service"].db = db]

\* A caller asks the session's catalog directly:
\* matches = st.session_state["catalog_service"].get_parts_for_op(make, op_code)
\* The dicts of an earlier list are gone with that list.
DirectLookup ==
    /\ pc = "idle"
    /\ "catalog_service" \in DOMAIN session_state
    /\ \E make \in VehicleMakes, op_code \in LookupOpCodes :
          LET self == session_state["catalog_service"]
              looked == LookupLoop(Store(self.db, << >>), 1, make, op_code, << >>)
          IN  /\ args' = [fn |-> "get_parts_for_op", make |-> make, op_code |-> op_code]
              /\ session_state' = WithDb(session_state, looked.store.db)
              /\ objects' = looked.store.new
              /\ matches' = looked.matches
              /\ ret' = Rows(looked.store, looked.matches)
    /\ UNCHANGED pipeline_vars

\* Quantities a caller gives a returned row.
CallerQuantities == {2, 4}

\* The caller updates a row the lookup returned ("will be updated by agent
\* later"): item = matches[j]; item["qty"] = q;
\* item["line_total"] = q * item["unit_price"]
WriteReturnedRow ==
    /\ pc = "idle"
    /\ args # NoneVal
    /\ args.fn = "get_parts_for_op"
    /\ \E j \in 1..Len(matches), q \in CallerQuantities :
          LET item == matches[j]
              s0 == Store(session_state["catalog_service"].db, objects)
              s1 == SetItem(s0, item, "qty", q)
              s2 == SetItem(s1, item, "line_total", q * Deref(s1, item).unit_price)
          IN  /\ session_state' = WithDb(session_state, s2.db)
              /\ objects' = s2.new
              /\ ret' = Rows(s2, matches)
    /\ UNCHANGED << pipeline_vars, args, matches >>

Next ==
    \/ Rerun
    \/ RunClicked
    \/ Call
    \/ DirectLookup
    \/ WriteReturnedRow
    \/ VideoStage
    \/ LaborStage
    \/ PartsStage
    \/ EstimateStage
    \/ ValidationStage
    \/ Return
    \/ NextRun

Spec == Init /\ [][Next]_vars

\* run_full_pipeline as a function of its arguments and of the session: the
\* values of its stages, up to the stage that raises, if one does.
run_full_pipeline(technician_text, has_video, labor_rate, shop_fees_pct, tax_pct, vehicle_make, ss) ==
    LET v == video_decoder_agent(technician_text, has_video)
        l == labor_agent(v.decoded_notes, labor_rate)
        p == parts_agent(l.labor_ops, vehicle_make, ss)
    IN  IF p.raised
        THEN [raised |-> TRUE, exc |-> p.exc, video_decoder |-> v, labor |-> l]
        ELSE LET e == estimate_generator(l.labor_ops, p.parts_lines,
                                         shop_fees_pct, tax_pct)
                 val == validation_agent(e.summary, l.labor_ops,
                                         p.parts_lines, ss)
             IN  [raised |-> FALSE, video_decoder |-> v, labor |-> l,
                  parts |-> [parts_lines |-> p.parts_lines, log |-> p.log],
                  estimate |-> e, validation |-> val]

-----------------------------------------------------------------------------
(* Direct calls of one function: the arguments are drawn in the initial    *)
(* state and one action applies the function.  No pipeline run is under    *)
(* way and the session holds no service.                                   *)

EmptySession == [k \in {} |-> NoneVal]

NoRun == Idle /\ session_state = EmptySession /\ matches = << >> /\ objects = << >>

\* --- labor_agent(decoded_notes, labor_rate) ---

LaborArgs ==
    { [fn |-> "labor_agent",
       decoded_notes |-> video_decoder_agent(text, hv).decoded_notes,
       labor_rate |-> rate] :
        text \in TechnicianTexts, hv \in BOOLEAN, rate \in LaborRates }

InitLabor == NoRun /\ args \in LaborArgs /\ ret = NoneVal

CallLabor ==
    /\ args.fn = "labor_agent"
    /\ ret = NoneVal
    /\ ret' = labor_agent(args.decoded_notes, args.labor_rate)
    /\ UNCHANGED << session_state, pipeline_vars, args, lookup_vars >>

SpecLabor == InitLabor /\ [][CallLabor]_vars

\* --- ValidationService().validate_estimate(estimate_summary, parts_lines) ---

\* Longest list of part lines handed to a direct call.
MaxPartLines == 2

SeqsUpTo(S, n) == UNION { [1..k -> S] : k \in 0..n }

TirePartLine(price) ==
    [operation_code |-> "TIRE-SET", part_number |-> <<"T","I","R","E","-","A","T">>,
     description |-> <<"A","l","l"," ","T","e","r","r","a","i","n"," ","T","i","r","e">>,
     qty |-> 1, unit_price |-> price, stock_source |-> "Dealer Stock",
     availability |-> "In Stock", line_total |-> price * 1]

\* Part lines for validate_estimate: a placeholder, a tire above 200.00 and
\* a tire at exactly 200.00.
ValidatePartLines ==
    { GenericPartLine("RR-BRAKE"), TirePartLine(250000), TirePartLine(200000) }

\* Summaries for validate_estimate, around the thresholds 0, 0.01 and the
\* approval ceiling.
ValidateSummaries ==
    { [labor_subtotal |-> l, parts_subtotal |-> 50000, shop_fees |-> f,
       tax |-> x, grand_total |-> g] :
        l \in {0, 320000}, f \in {0, 10, 20}, x \in {0, 10, 20},
        g \in {388500, 4000000, 4000010} }

ValidateArgs ==
    { [fn |-> "validate_estimate", self |-> ValidationService,
       estimate_summary |-> s, parts_lines |-> pl] :
        s \in ValidateSummaries, pl \in SeqsUpTo(ValidatePartLines, MaxPartLines) }

InitValidate == NoRun /\ args \in ValidateArgs /\ ret = NoneVal

CallValidate ==
    /\ args.fn = "validate_estimate"
    /\ ret = NoneVal
    /\ ret' = validate_estimate(args.self, args.estimate_summary, args.parts_lines)
    /\ UNCHANGED << session_state, pipeline_vars, args, lookup_vars >>

SpecValidate == InitValidate /\ [][CallValidate]_vars

\* --- estimate_generator(labor_ops, parts_lines, shop_fees_pct, tax_pct) ---

\* Notes of at most one piece.
EstimateTexts ==
    TextsOf({ <<"B","r","a","k","e">>, <<"T","I","R","E">>, <<"s","t","r","u","t">>,
              <<"o","i","l"," ">>, <<"l","e","a","k">> }, 1)

\* Labor lines as labor_agent returns them, at rates 0.01, 160.0, 160.125.
EstimateLaborOps ==
    { labor_agent(text, rate).labor_ops :
        text \in EstimateTexts, rate \in {10, 160000, 160125} }

\* Part lines as parts_agent builds them: the placeholder and the lines of
\* catalog rows, whose unit prices may have more than two decimals.
EstimatePartLines ==
    { GenericPartLine("RR-BRAKE") }
    \cup { FoundPartLine(CatalogRows[k].operation_code, CatalogItem(CatalogRows[k])) :
             k \in 1..Len(CatalogRows) }

EstimateArgs ==
    { [fn |-> "estimate_generator", labor_ops |-> lo, parts_lines |-> pl,
       shop_fees_pct |-> fee, tax_pct |-> tax] :
        lo \in EstimateLaborOps, pl \in SeqsUpTo(EstimatePartLines, MaxPartLines),
        fee \in ShopFeePcts, tax \in TaxPcts }

InitEstimate == NoRun /\ args \in EstimateArgs /\ ret = NoneVal

CallEstimate ==
    /\ args.fn = "estimate_generator"
    /\ ret = NoneVal
    /\ ret' = estimate_generator(args.labor_ops, args.parts_lines,
                                 args.shop_fees_pct, args.tax_pct)
    /\ UNCHANGED << session_state, pipeline_vars, args, lookup_vars >>

SpecEstimate == InitEstimate /\ [][CallEstimate]_vars

\* --- VinDecoder(data_dir).decode(vin) ---

VinPrefixes ==
    { <<"1","H","G">>, <<"1","h","g">>, <<"1","F","T">>, <<"5","Y","J">>, <<"Z","Z","Z">> }

\* Characters 4..9 of the VINs.
VinMiddle == <<"C","M","8","2","6","3">>

\* Characters from the 11th on: one short of, exactly, and one beyond a
\* 17-character VIN, and a tail that upper() lengthens by one ("ß").
VinTails ==
    { <<"A","1","2","3","4","5">>, <<"A","1","2","3","4","5","1">>,
      <<"A","1","2","3","4","5","1","7">>, <<"A","1","2","3","4","ß">> }

VinInputs ==
    { << >> }
    \cup { pad \o p \o VinMiddle \o << y >> \o tail \o pad :
             p \in VinPrefixes, y \in {"3", "A", "s", "Z"}, tail \in VinTails,
             pad \in { << >>, << " " >>, << "\r" >> } }

DecodeArgs ==
    { [fn |-> "decode", self |-> d, vin |-> v] : d \in VinDecoders, v \in VinInputs }

InitVin == NoRun /\ args \in DecodeArgs /\ ret = NoneVal

CallDecode ==
    /\ args.fn = "decode"
    /\ ret = NoneVal
    /\ ret' \in decode(args.self, args.vin)
    /\ UNCHANGED << session_state, pipeline_vars, args, lookup_vars >>

SpecVin == InitVin /\ [][CallDecode]_vars

-----------------------------------------------------------------------------
(* Properties of labor_agent                                               *)

\* The seven keyword groups and the operation code of each.
KeywordGroups ==
    << [code |-> "RR-BRAKE",    keywords |-> BRAKE_KEYWORDS],
       [code |-> "ALT-REPL",    keywords |-> ALTERNATOR_KEYWORDS],
       [code |-> "TIRE-SET",    keywords |-> TIRE_KEYWORDS],
       [code |-> "SUSP-FRONT",  keywords |-> SUSPENSION_KEYWORDS],
       [code |-> "COOLING-SYS", keywords |-> COOLING_KEYWORDS],
       [code |-> "OIL-LEAK",    keywords |-> OIL_LEAK_KEYWORDS],
       [code |-> "SPARK-PLUG",  keywords |-> TUNE_UP_KEYWORDS] >>

\* kw occurs in notes at some offset, letter case ignored on both sides.
OccursIgnoringCase(notes, kw) ==
    \E off \in 0..(Len(notes) - Len(kw)) :
        \A j \in 1..Len(kw) : LowerChar(notes[off + j]) = LowerChar(kw[j])

GroupMatches(notes, g) ==
    \E k \in 1..Len(KeywordGroups[g].keywords) :
        OccursIgnoringCase(notes, KeywordGroups[g].keywords[k])

\* The positions of the operations of `ops` that carry `code`.
OpsWithCode(ops, code) == { i \in 1..Len(ops) : ops[i].operation_code = code }

LaborReturned == args # NoneVal /\ args.fn = "labor_agent" /\ ret # NoneVal

\* C3: labor_agent emits the operation of a keyword group if and only if one
\* keyword of the group occurs in the notes, letter case ignored; the groups
\* are decided independently, and no group operation appears twice.
C3_GroupsMatchIndependently ==
    LaborReturned =>
        \A g \in 1..Len(KeywordGroups) :
            LET n == Cardinality(OpsWithCode(ret.labor_ops, KeywordGroups[g].code))
            IN  /\ n <= 1
                /\ (n = 1) <=> GroupMatches(args.decoded_notes, g)

\* C3 witness: notes written in capitals made two groups emit their
\* operations in one call.
C3_Witness ==
    /\ LaborReturned
    /\ args.decoded_notes = <<"B","r","a","k","e","T","I","R","E">>
    /\ OpsWithCode(ret.labor_ops, "RR-BRAKE") # {}
    /\ OpsWithCode(ret.labor_ops, "TIRE-SET") # {}
    /\ Len(ret.labor_ops) = 2

\* The fields under which a labor line could carry its required part
\* quantity.
RequiredQtyFields == {"qty", "quantity", "required_qty", "required_quantity", "parts_qty"}

\* C4: GEN-DIAG is emitted if and only if no keyword group matches; it is
\* then the only labor operation, with hours 1.0 and required part quantity
\* 0, and it never appears together with a group operation.
C4_FallbackOnlyWhenNothingMatches ==
    LaborReturned =>
        LET ops == ret.labor_ops
            gen == OpsWithCode(ops, "GEN-DIAG")
        IN  /\ (gen # {}) <=> (\A g \in 1..Len(KeywordGroups) : ~GroupMatches(args.decoded_notes, g))
            /\ gen # {} => /\ Len(ops) = 1
                           /\ ops[1].hours = 10
                           /\ \E f \in RequiredQtyFields \cap DOMAIN ops[1] : ops[1][f] = 0

\* Generic leak wording.
LEAK_WORDING ==
    << <<"l","e","a","k">>,
       <<"l","e","a","k","i","n","g">>,
       <<"d","r","i","p","p","i","n","g">> >>

\* Wording that names the oil-leak subject.
OIL_WORDING ==
    << <<"o","i","l">>,
       <<"v","a","l","v","e"," ","c","o","v","e","r">>,
       <<"g","a","s","k","e","t">> >>

OccursAny(notes, words) ==
    \E k \in 1..Len(words) : OccursIgnoringCase(notes, words[k])

\* C12: for notes that contain a suspension or cooling keyword together
\* with generic leak wording (leak, leaking, dripping) and no mention of
\* oil, valve cover or gasket, labor_agent does not emit OIL-LEAK.
C12_NoCrossTriggerOnLeakWording ==
    (/\ LaborReturned
     /\ GroupMatches(args.decoded_notes, 4) \/ GroupMatches(args.decoded_notes, 5)
     /\ OccursAny(args.decoded_notes, LEAK_WORDING)
     /\ ~OccursAny(args.decoded_notes, OIL_WORDING))
    => OpsWithCode(ret.labor_ops, "OIL-LEAK") = {}

-----------------------------------------------------------------------------
(* Properties of a pipeline run                                            *)

\* The parts stage of the current run has acted: it returned or it raised.
PartsActed == pc \in {"raised", "estimate", "validation", "return", "done"}

HasKeys(r, keys) == keys \subseteq DOMAIN r

\* Every stage of a returned run carries its structured output and its log.
WellFormedResult(r) ==
    /\ HasKeys(r.video_decoder, {"decoded_notes", "log"})
    /\ HasKeys(r.labor, {"labor_ops", "log"})
    /\ HasKeys(r.parts, {"parts_lines", "log"})
    /\ HasKeys(r.estimate, {"summary", "log"})
    /\ HasKeys(r.validation, {"status", "warnings", "log"})

\* C2: no stage of run_full_pipeline raises, whatever the inputs and the
\* services of the session, and the returned result carries, for every
\* stage, its structured output and its log list.
C2_PipelineIsTotal ==
    /\ pc # "raised"
    /\ pc = "done" => WellFormedResult(result)

\* The catalog rows that match (make, op_code), as the lookup compares them.
MatchingRows(db, make, op_code) ==
    { k \in 1..Len(db) : /\ MakeUpper(db[k].make) = MakeUpper(make)
                         /\ db[k].operation_code = op_code }

ROTOR == <<"R","o","t","o","r">>

KIT == <<"K","i","t">>

SET == <<"S","e","t">>

IsSetOrKit(desc) == Contains(desc, SET) \/ Contains(desc, KIT)

IsBareRotor(desc) == Contains(desc, ROTOR) /\ ~IsSetOrKit(desc)

\* The quantity the override rules give a part line of catalog row `row`
\* resolved for labor operation `op`.
QuantityFollowsRules(line, row, op) ==
    IF IsSetOrKit(row.description) THEN line.qty = 1
    ELSE IF IsBareRotor(row.description) THEN line.qty = 2
    ELSE \E f \in RequiredQtyFields \cap DOMAIN op : line.qty = op[f]

\* C5: when the catalog has rows matching (make, operation_code), the parts
\* stage resolves each of them to a part line whose quantity follows the
\* override rules: 2 for a bare rotor, 1 for a set or kit, the operation's
\* required quantity otherwise.
C5_CatalogQuantityOverrides ==
    (PartsActed /\ "catalog_service" \in DOMAIN session_state) =>
        LET db == session_state["catalog_service"].db
            ops == labor.labor_ops
        IN  \A i \in 1..Len(ops) :
              \A k \in MatchingRows(db, input.vehicle_make, ops[i].operation_code) :
                /\ pc # "raised"
                /\ \E j \in 1..Len(parts.parts_lines) :
                     /\ parts.parts_lines[j].operation_code = ops[i].operation_code
                     /\ parts.parts_lines[j].part_number = db[k].part_number
                     /\ QuantityFollowsRules(parts.parts_lines[j], db[k], ops[i])

\* The rows the session's catalog holds (none when no catalog is installed).
SessionDb ==
    IF "catalog_service" \in DOMAIN session_state
    THEN session_state["catalog_service"].db ELSE << >>

\* C6: the part lines the parts stage returns hold no line of GEN-DIAG,
\* and every operation other than GEN-DIAG that has no catalog match gets
\* exactly one GEN-PART placeholder line priced 50.00.
C6_NoPartForGeneralDiagnosis ==
    PartsActed =>
        LET ops == labor.labor_ops
        IN  /\ pc # "raised" =>
                 \A j \in 1..Len(parts.parts_lines) :
                     parts.parts_lines[j].operation_code # "GEN-DIAG"
            /\ \A i \in 1..Len(ops) :
                 (/\ ops[i].operation_code # "GEN-DIAG"
                  /\ MatchingRows(SessionDb, input.vehicle_make, ops[i].operation_code) = {})
                 => /\ pc # "raised"
                    /\ LET mine == OpsWithCode(parts.parts_lines, ops[i].operation_code)
                       IN  /\ Cardinality(mine) = 1
                           /\ \A j \in mine :
                                /\ parts.parts_lines[j].part_number = GEN_PART_NUMBER
                                /\ parts.parts_lines[j].unit_price = 50000

\* C14: in every run the parts stage returns part lines, each part line's
\* operation_code is the code of a labor operation of the run, and every
\* labor operation other than GEN-DIAG has at least one part line, whatever
\* the make and the catalog of the session (loaded, empty or absent).
C14_PartLinesReferToLaborOps ==
    PartsActed =>
        /\ pc # "raised"
        /\ \A j \in 1..Len(parts.parts_lines) :
              OpsWithCode(labor.labor_ops, parts.parts_lines[j].operation_code) # {}
        /\ \A i \in 1..Len(labor.labor_ops) :
              labor.labor_ops[i].operation_code # "GEN-DIAG" =>
                  OpsWithCode(parts.parts_lines, labor.labor_ops[i].operation_code) # {}

\* The required part quantities the quantity policy gives an operation
\* code, over all engine descriptors: oil-leak 1, or 2 with a V6, V8 or HEMI
\* marker; tune-up 4, 6 with "V6", 8 with "V8" or "HEMI".  The policy names
\* no quantity for the other codes.
PolicyQuantities(code) ==
    CASE code = "RR-BRAKE"   -> {1}
      [] code = "TIRE-SET"   -> {4}
      [] code = "SUSP-FRONT" -> {2}
      [] code = "OIL-LEAK"   -> {1, 2}
      [] code = "SPARK-PLUG" -> {4, 6, 8}
      [] OTHER               -> Nat

\* A catalog override (bare rotor, set or kit) applies to the part line.
OverrideApplies(line) ==
    IsSetOrKit(line.description) \/ IsBareRotor(line.description)

\* C11: every labor operation of a run carries a required part quantity
\* that the quantity policy allows its group, and every part line of the
\* operation to which no catalog override applies carries that quantity.
C11_RequiredQuantityPerGroup ==
    labor # NoneVal =>
        \A i \in 1..Len(labor.labor_ops) :
            LET op == labor.labor_ops[i]
            IN  /\ \E f \in RequiredQtyFields \cap DOMAIN op :
                      op[f] \in PolicyQuantities(op.operation_code)
                /\ parts # NoneVal =>
                      \A j \in OpsWithCode(parts.parts_lines, op.operation_code) :
                          ~OverrideApplies(parts.parts_lines[j]) =>
                              \E f \in RequiredQtyFields \cap DOMAIN op :
                                  parts.parts_lines[j].qty = op[f]

\* C10: every complete run with labor_rate > 0 and tax_pct = 0 ends with
\* status review and the sales-tax warning, whatever the notes, the make,
\* the catalog and the fee percentage.
C10_ZeroTaxForcesReview ==
    (pc = "done" /\ input.labor_rate > 0 /\ input.tax_pct = 0) =>
        /\ result.validation.status = "review"
        /\ \E w \in 1..Len(result.validation.warnings) :
               result.validation.warnings[w] = SALES_TAX_MSG

\* The run that differs from the current one in has_video only.
OtherVideoRun ==
    run_full_pipeline(input.technician_text, ~input.has_video,
                      input.labor_rate, input.shop_fees_pct, input.tax_pct,
                      input.vehicle_make, session_state)

\* The lowercased marker contains no keyword of any of the seven groups.
MarkerHasNoKeyword ==
    \A g \in 1..Len(KeywordGroups) :
        ~AnyIn(Lower(VIDEO_MARKER), KeywordGroups[g].keywords)

\* C15: a run that has ended, of the page or of another caller, has the
\* outcome of the run that differs from it in has_video only.  The labor
\* operations and the labor log are the same; if the run returned, so does
\* the other, with the same part lines, summary, validation result and stage
\* logs; if it raised, the other raises the same exception in the same
\* stage.  decoded_notes and the log of the video decoder differ, and the
\* marker appended to the notes contains no keyword of the seven groups.
C15_VideoFlagDoesNotInfluenceEstimate ==
    pc \in {"done", "raised"} =>
        Eval(OtherVideoRun, LAMBDA other :
            /\ MarkerHasNoKeyword
            /\ video.decoded_notes # other.video_decoder.decoded_notes
            /\ video.log # other.video_decoder.log
            /\ labor = other.labor
            /\ IF pc = "done"
               THEN /\ ~other.raised
                    /\ result.labor = other.labor
                    /\ result.parts = other.parts
                    /\ result.estimate = other.estimate
                    /\ result.validation = other.validation
               ELSE /\ other.raised
                    /\ raised = [type |-> other.exc, stage |-> "parts"])

\* C15 witness: a run with video whose text ends in "oil " has returned
\* with the marker appended to the notes and the general diagnosis alone,
\* validated by the session's validation service; the run without video
\* returns too, from the notes as typed.
C15_Witness ==
    /\ pc = "done"
    /\ "validation_service" \in DOMAIN session_state
    /\ input.has_video
    /\ input.technician_text = <<"o","i","l"," ">>
    /\ result.video_decoder.decoded_notes = input.technician_text \o VIDEO_MARKER
    /\ Len(result.labor.labor_ops) = 1
    /\ result.labor.labor_ops[1].operation_code = "GEN-DIAG"
    /\ result.validation.status = "review"
    /\ ~OtherVideoRun.raised
    /\ OtherVideoRun.video_decoder.decoded_notes = input.technician_text

-----------------------------------------------------------------------------
(* Properties of validate_estimate                                         *)

ValidateReturned ==
    args # NoneVal /\ args.fn = "validate_estimate" /\ ret # NoneVal

Has(warnings, msg) == \E w \in 1..Len(warnings) : warnings[w] = msg

\* C1: validate_estimate returns review if and only if at least one warning
\* was raised or grand_total exceeds the auto-approval ceiling, and pass
\* otherwise; a grand_total above the ceiling always yields review.
C1_ReviewIffWarningOrCeiling ==
    ValidateReturned =>
        LET over == args.estimate_summary.grand_total > MAX_AUTO_APPROVAL
        IN  /\ ret.status \in {"review", "pass"}
            /\ (ret.status = "review") <=> (ret.warnings # << >> \/ over)
            /\ over => ret.status = "review"

\* C1 witness: a summary without labor and without part lines, 0.01 above
\* the ceiling, was sent to review by the ceiling rule alone.
C1_Witness ==
    /\ ValidateReturned
    /\ args.estimate_summary.labor_subtotal = 0
    /\ args.estimate_summary.grand_total = MAX_AUTO_APPROVAL + 10
    /\ args.parts_lines = << >>
    /\ ret.status = "review"
    /\ Len(ret.warnings) = 1

\* C8: the shop-supplies warning is raised exactly when labor_subtotal > 0
\* and shop_fees <= 0.01, the sales-tax warning exactly when
\* labor_subtotal > 0 and tax <= 0.01, each whatever the other rules do.
C8_ShopSuppliesAndTaxRules ==
    ValidateReturned =>
        LET s == args.estimate_summary
        IN  /\ Has(ret.warnings, SHOP_SUPPLIES_MSG)
                 <=> (s.labor_subtotal > 0 /\ s.shop_fees <= 10)
            /\ Has(ret.warnings, SALES_TAX_MSG)
                 <=> (s.labor_subtotal > 0 /\ s.tax <= 10)
            /\ s.labor_subtotal = 0 =>
                 /\ ~Has(ret.warnings, SHOP_SUPPLIES_MSG)
                 /\ ~Has(ret.warnings, SALES_TAX_MSG)

\* C8 witness: shop_fees of exactly 0.01 raised the shop-supplies warning
\* while tax of 0.02 raised none, next to a ceiling and a tire warning.
C8_Witness ==
    /\ ValidateReturned
    /\ args.estimate_summary.labor_subtotal > 0
    /\ args.estimate_summary.shop_fees = 10
    /\ args.estimate_summary.tax = 20
    /\ args.estimate_summary.grand_total > MAX_AUTO_APPROVAL
    /\ args.parts_lines = << TirePartLine(250000) >>
    /\ Has(ret.warnings, SHOP_SUPPLIES_MSG)
    /\ ~Has(ret.warnings, SALES_TAX_MSG)
    /\ Len(ret.warnings) = 3

-----------------------------------------------------------------------------
(* Properties of estimate_generator                                        *)

EstimateReturned ==
    args # NoneVal /\ args.fn = "estimate_generator" /\ ret # NoneVal

\* C7: the reported fields of every summary satisfy
\* grand_total = labor_subtotal + parts_subtotal + shop_fees + tax.
C7_GrandTotalIsSumOfReportedFields ==
    EstimateReturned =>
        LET s == ret.summary
        IN  s.grand_total = s.labor_subtotal + s.parts_subtotal + s.shop_fees + s.tax

-----------------------------------------------------------------------------
(* Properties of VinDecoder.decode                                         *)

DecodeReturned == args # NoneVal /\ args.fn = "decode" /\ ret # NoneVal

IsVinProfile(r) ==
    DOMAIN r = {"make", "model", "year", "engine", "trim", "drivetrain",
                "vehicle_type", "confidence"}

\* What C9 says of a returned profile.
C9_ProfileIsConsistent ==
    (DecodeReturned /\ ~ret.raised) =>
        LET v == Strip(Upper(args.vin))
            table == args.self.wmi_db
            profile == ret.value
        IN  /\ IsVinProfile(profile)
            /\ Len(v) # 17 =>
                 profile.make = "UNKNOWN" /\ profile.year = 0 /\ profile.confidence = 0
            /\ (Len(v) = 17 /\ SubSeq(v, 1, 3) \in DOMAIN table) =>
                 /\ profile.confidence = 8
                 /\ profile.make = table[SubSeq(v, 1, 3)].make
                 /\ profile.model = ModelOf(table[SubSeq(v, 1, 3)].make)
            /\ (Len(v) = 17 /\ SubSeq(v, 1, 3) \notin DOMAIN table) =>
                 profile.make = "UNKNOWN" /\ profile.confidence = 0
            /\ profile.confidence \in {0, 8}
            /\ (profile.confidence = 0) <=> (profile.make = "UNKNOWN")

\* C9: decode never raises and always returns a profile.  An input whose
\* uppercased, trimmed length is not 17 gives make UNKNOWN, year 0,
\* confidence 0.0; a 17-character VIN whose first three characters are a
\* key of the prefix table gives confidence 0.8, the make of that row and
\* that make's model; any other 17-character VIN gives make UNKNOWN and
\* confidence 0.0.  Confidence is 0.0 or 0.8, and 0.0 exactly when make is
\* UNKNOWN.
C9_DecodeIsTotalAndConsistent ==
    DecodeReturned =>
        /\ ~ret.raised
        /\ C9_ProfileIsConsistent

-----------------------------------------------------------------------------
(* Properties of CatalogService                                            *)

\* The columns of a row as _load_catalog stores it.
CatalogColumns ==
    {"make", "operation_code", "part_number", "description", "unit_price",
     "cost_price", "stock_source", "availability"}

LookupReturned == args # NoneVal /\ args.fn = "get_parts_for_op"

\* The list a lookup returned, as the caller reads it now.
ReturnedRows == Rows(Store(SessionDb, objects), matches)

\* The rows a lookup returned were made from the stored rows that match its
\* arguments and agree with them on every catalog column, whatever the
\* caller has written into qty and line_total since; no returned row is a
\* stored row.
ReturnedAgreesWithStored ==
    LookupReturned =>
        Eval2(SessionDb, MatchOrigins(SessionDb, args.make, args.op_code),
              LAMBDA db, origins :
                /\ Len(matches) = Len(origins)
                /\ ret = ReturnedRows
                /\ \A j \in 1..Len(matches) :
                      /\ matches[j].region # "db"
                      /\ DOMAIN db[origins[j]] = CatalogColumns
                      /\ \A f \in CatalogColumns : ret[j][f] = db[origins[j]][f])

\* The catalog service of the session is the one of before the step.
CatalogKept ==
    "catalog_service" \in DOMAIN session_state =>
        /\ "catalog_service" \in DOMAIN session_state'
        /\ session_state'["catalog_service"] = session_state["catalog_service"]

\* A lookup with the arguments of the last one returns after the step what
\* it returned before the step.
LaterLookupKept ==
    (LookupReturned /\ LookupReturned' /\ args' = args) =>
        /\ "catalog_service" \in DOMAIN session_state'
        /\ get_parts_for_op(session_state'["catalog_service"].db, args.make, args.op_code)
             = get_parts_for_op(session_state["catalog_service"].db, args.make, args.op_code)

\* C13: no step of a session (a run of the page script with or without a
\* click on the run button, a catalog lookup, a write of qty and line_total
\* to a row a lookup returned, a stage of a pipeline run, its end) changes
\* the catalog service once it is installed, so CatalogService.db keeps the
\* rows loaded at startup; after every step the returned rows are dicts of
\* their own that still agree with the stored rows they were copied from,
\* and a later lookup returns what it returned before.
C13_CatalogIsReadOnly ==
    [][ /\ CatalogKept
        /\ ReturnedAgreesWithStored'
        /\ LaterLookupKept ]_vars

\* C13 witness: in a session whose services the page script installed, a
\* lookup returned the two Honda rear-brake rows, the caller has set
\* quantity 4 on the first and 2 on the second, and the session still holds
\* the rows as loaded.
C13_Witness ==
    /\ LookupReturned
    /\ "vin_decoder" \in DOMAIN session_state
    /\ args.op_code = "RR-BRAKE"
    /\ Len(matches) = 2
    /\ ReturnedRows[1].qty = 4 /\ ReturnedRows[1].line_total = 4 * 85125
    /\ ReturnedRows[2].qty = 2
    /\ SessionDb = CatalogRows
    /\ get_parts_for_op(SessionDb, args.make, args.op_code)[1].qty = 1

=============================================================================
